---- MODULE Spec2Model ----
(***************************************************************************)
(* Model of mlos_bench's GridSearchOptimizer (grid_search_optimizer.py):    *)
(* the pending/suggested bookkeeping of suggest(), register(),              *)
(* bulk_register() and not_converged(), and the construction of the grid.   *)
(*                                                                         *)
(* A tunable is represented by its cardinality; the value 0 stands for a    *)
(* tunable whose cardinality is None (unquantized).  The values of a        *)
(* tunable on the grid are 1..cardinality; the value 0 in a configuration   *)
(* stands for a legal value of the tunable that is not a grid point (for    *)
(* instance 0.3 in a range [0, 1] quantized into 3 bins).                   *)
(***************************************************************************)
EXTENDS Integers, Sequences, FiniteSets, TLC

\* ---- bounds of the model ----
MaxTunables == 2
MaxCard == 2
MaxBudget == 3
MaxIter == 5
MaxBatch == 2
MaxCalls == 3

VARIABLES
    phase,                \* "new" before __init__, "ready" after it, "failed" if it raised
    tunables,             \* self._tunables: the cardinality of each tunable
    default_config,       \* self.config_space.get_default_configuration()
    max_suggestions,      \* self._max_suggestions
    start_with_defaults,  \* self._start_with_defaults
    iter,                 \* self._iter
    pending,              \* self._pending_configs: the keys of the ordered dict
    suggested,            \* self._suggested_configs
    last,                 \* the last call made by the caller and what it returned
    opt_target,           \* the direction of the optimization target: "min" or "max"
    best,                 \* self._best_score and self._best_config
    ret_score,            \* what the last register() returned
    os                    \* the OSEnv: self._is_ready, the calls made to the host
                          \* service and what the last setup() returned

vars == <<phase, tunables, default_config, max_suggestions, start_with_defaults,
          iter, pending, suggested, last, opt_target, best, ret_score, os>>

\* the state of the best-observation tracking of the base classes
trackVars == <<opt_target, best, ret_score>>

Range(s) == {s[i] : i \in 1..Len(s)}

\* ---- the inputs ----
Unbounded == 0

TunableSpaces ==
    UNION {[1..n -> 0..MaxCard] : n \in 1..MaxTunables}

\* every assignment of a legal value to each tunable, on the grid or not
AllConfigs(t) ==
    {c \in [1..Len(t) -> 0..MaxCard] : \A i \in 1..Len(t) : c[i] <= t[i]}

NoConfig == <<>>

\* the OSEnv before any setup()
NoEnv ==
    [op |-> "none", is_ready |-> FALSE, ret |-> FALSE, base_ok |-> FALSE,
     started |-> "none", final |-> "none", vm_start |-> 0, wait |-> 0,
     vm_stop |-> 0]

\* an optional score: <<>> is None, <<v>> is the score v
NoScore == <<>>

NoBest == [score |-> NoScore, config |-> NoConfig]

\* the scores of the module's doctest
ScoreValues == {7, 42}

\* what a trial reports: a status and a score, None for a failed trial
TrialOutcomes ==
    {<<"SUCCEEDED", <<v>>>> : v \in ScoreValues} \cup {<<"FAILED", NoScore>>}

Result(op, raised, cfg, flag) ==
    [op |-> op, raised |-> raised, cfg |-> cfg, flag |-> flag]

\* ---- the grid ----
RECURSIVE Prod(_)
Prod(t) ==
    IF t = <<>> THEN 1 ELSE Head(t) * Prod(Tail(t))

\* ConfigSpace.util.generate_grid: the cross product of the values of every
\* tunable, the last tunable varying fastest
RECURSIVE generate_grid(_)
generate_grid(t) ==
    IF t = <<>> THEN << <<>> >>
    ELSE LET rest == generate_grid(Tail(t))
             n == Len(rest)
         IN [k \in 1..(Head(t) * n) |->
                <<((k - 1) \div n) + 1>> \o rest[((k - 1) % n) + 1]]

\* {tuple(configs.values()): None for configs in configs}: an ordered dict
\* keeps the first occurrence of each key, in insertion order
RECURSIVE DictKeys(_, _)
DictKeys(configs, acc) ==
    IF configs = <<>> THEN acc
    ELSE DictKeys(Tail(configs),
                  IF Head(configs) \in Range(acc) THEN acc
                  ELSE Append(acc, Head(configs)))

\* the dict keyed by the column names instead of the values
_get_grid_keyed_by_names(t) ==
    DictKeys([k \in 1..Len(generate_grid(t)) |-> [i \in 1..Len(t) |-> i]], <<>>)

_get_grid(t) ==
    DictKeys(generate_grid(t), <<>>)

\* the default configurations tried: the first and the last grid point, and
\* a configuration of legal values none of which is a grid point
Defaults(t) ==
    LET grid == _get_grid(t)
        off == [i \in 1..Len(t) |-> 0]
    IN IF grid = <<>> THEN {off} ELSE {grid[1], grid[Len(grid)], off}

\* a check that rejects the space only when no tunable is bounded
_sanity_check_raises_all(t) ==
    \A i \in 1..Len(t) : t[i] = Unbounded

\* _sanity_check raises ValueError when size == np.inf, that is when some
\* tunable has "cardinality or np.inf" equal to np.inf
_sanity_check_raises(t) ==
    \E i \in 1..Len(t) : t[i] = Unbounded

\* Optimizer.__init__ of the base class: no suggestion made yet
base_iter == 0

Init ==
    /\ phase = "new"
    /\ tunables \in TunableSpaces
    /\ default_config \in Defaults(tunables)
    /\ max_suggestions \in 0..MaxBudget
    /\ start_with_defaults \in BOOLEAN
    /\ iter = base_iter
    /\ pending = <<>>
    /\ suggested = {}
    /\ last = Result("none", "none", NoConfig, FALSE)
    /\ opt_target = "max"
    /\ best = NoBest
    /\ ret_score = NoScore
    /\ os = NoEnv

\* GridSearchOptimizer.__init__
Construct ==
    /\ phase = "new"
    /\ IF _sanity_check_raises(tunables)
       THEN /\ phase' = "failed"
            /\ last' = Result("__init__", "ValueError", NoConfig, FALSE)
            /\ UNCHANGED <<pending, suggested>>
       ELSE /\ phase' = "ready"
            /\ pending' = _get_grid(tunables)
            /\ suggested' = {}
            /\ last' = Result("__init__", "none", NoConfig, FALSE)
    /\ UNCHANGED <<tunables, default_config, max_suggestions, start_with_defaults, iter>>
    /\ UNCHANGED <<trackVars, os>>

\* Optimizer.suggest of the base class: one more iteration
base_suggest(it) ==
    it + 1

\* the restart test with a strict comparison
restart_grid_strict(p, it) ==
    p = <<>> /\ it < max_suggestions

\* the restart test without the budget
restart_grid_always(p, it) ==
    p = <<>>

\* the restart test with the comparison inverted
restart_grid_inverted(p, it) ==
    p = <<>> /\ it > max_suggestions

\* the restart test of suggest(), made on the already incremented counter
restart_grid(p, it) ==
    p = <<>> /\ it <= max_suggestions

\* clearing the dict instead of deleting one key
del_pending_all(p, key) ==
    <<>>

\* deleting the newest key instead of the one asked for
del_pending_last(p, key) ==
    SubSeq(p, 1, Len(p) - 1)

\* del self._pending_configs[key]
del_pending(p, key) ==
    SelectSeq(p, LAMBDA c : c # key)

\* suggest() that never clears self._start_with_defaults
suggest_sticky_defaults ==
    /\ phase = "ready"
    /\ iter < MaxIter
    /\ LET it == base_suggest(iter) IN
       /\ iter' = it
       /\ IF start_with_defaults
          THEN /\ UNCHANGED start_with_defaults
               /\ IF default_config \in Range(pending)
                  THEN /\ pending' = del_pending(pending, default_config)
                       /\ suggested' = suggested \cup {default_config}
                       /\ last' = Result("suggest", "none", default_config, FALSE)
                  ELSE /\ last' = Result("suggest", "KeyError", NoConfig, FALSE)
                       /\ UNCHANGED <<pending, suggested>>
          ELSE /\ UNCHANGED start_with_defaults
               /\ LET p == IF restart_grid(pending, it) THEN _get_grid(tunables)
                           ELSE pending
                  IN IF p = <<>>
                     THEN /\ last' = Result("suggest", "ValueError", NoConfig, FALSE)
                          /\ pending' = p
                          /\ UNCHANGED suggested
                     ELSE /\ suggested' = suggested \cup {Head(p)}
                          /\ pending' = del_pending(p, Head(p))
                          /\ last' = Result("suggest", "none", Head(p), FALSE)
    /\ UNCHANGED <<phase, tunables, default_config, max_suggestions>>
    /\ UNCHANGED <<trackVars, os>>

\* GridSearchOptimizer.suggest
suggest ==
    /\ phase = "ready"
    /\ iter < MaxIter
    /\ LET it == base_suggest(iter) IN
       /\ iter' = it
       /\ IF start_with_defaults
          THEN /\ start_with_defaults' = FALSE
               /\ IF default_config \in Range(pending)
                  THEN /\ pending' = del_pending(pending, default_config)
                       /\ suggested' = suggested \cup {default_config}
                       /\ last' = Result("suggest", "none", default_config, FALSE)
                  ELSE \* del raises KeyError on a key that is not in the dict
                       /\ last' = Result("suggest", "KeyError", NoConfig, FALSE)
                       /\ UNCHANGED <<pending, suggested>>
          ELSE /\ UNCHANGED start_with_defaults
               /\ LET p == IF restart_grid(pending, it) THEN _get_grid(tunables)
                           ELSE pending
                  IN IF p = <<>>
                     THEN \* next(iter(...)) raises StopIteration
                          /\ last' = Result("suggest", "ValueError", NoConfig, FALSE)
                          /\ pending' = p
                          /\ UNCHANGED suggested
                     ELSE /\ suggested' = suggested \cup {Head(p)}
                          /\ pending' = del_pending(p, Head(p))
                          /\ last' = Result("suggest", "none", Head(p), FALSE)
    /\ UNCHANGED <<phase, tunables, default_config, max_suggestions>>
    /\ UNCHANGED <<trackVars, os>>

\* self._suggested_configs.remove(key), the KeyError caught and logged
remove_suggested(s, key) ==
    s \ {key}

\* the sign of the target: a "max" target is tracked as a minimization
Sign ==
    IF opt_target = "max" THEN -1 ELSE 1

\* Optimizer.register of the base class: the score with the sign of the
\* target, None for a trial that has no score to record
base_register(status, score) ==
    IF status = "SUCCEEDED" /\ score # NoScore THEN <<Sign * score[1]>>
    ELSE NoScore

\* TrackBestOptimizer.register: a succeeded trial strictly better than the
\* incumbent becomes the best observation
track_best(b, cfg, status, registered) ==
    IF /\ status = "SUCCEEDED"
       /\ registered # NoScore
       /\ (b.score = NoScore \/ registered[1] < b.score[1])
    THEN [score |-> registered, config |-> cfg]
    ELSE b

\* TrackBestOptimizer.get_best_observation: the best score with the sign of
\* the target undone, and its configuration
get_best_observation ==
    [score |-> IF best.score = NoScore THEN NoScore ELSE <<Sign * best.score[1]>>,
     config |-> best.config]

\* register() without the except clause: the KeyError reaches the caller
register_uncaught(cfg, status, score) ==
    /\ phase = "ready"
    /\ best' = track_best(best, cfg, status, base_register(status, score))
    /\ ret_score' = base_register(status, score)
    /\ suggested' = remove_suggested(suggested, cfg)
    /\ last' = Result("register", IF cfg \in suggested THEN "none" ELSE "KeyError",
                      NoConfig, cfg \in suggested)
    /\ UNCHANGED <<phase, tunables, default_config, max_suggestions,
                   start_with_defaults, iter, pending, opt_target, os>>

\* register() returning the score it was given instead of the registered one
register_raw_score(cfg, status, score) ==
    /\ phase = "ready"
    /\ best' = track_best(best, cfg, status, base_register(status, score))
    /\ ret_score' = score
    /\ suggested' = remove_suggested(suggested, cfg)
    /\ last' = Result("register", "none", NoConfig, cfg \in suggested)
    /\ UNCHANGED <<phase, tunables, default_config, max_suggestions,
                   start_with_defaults, iter, pending, opt_target, os>>

\* register() taking the configuration out of Pending as well
register_consuming(cfg, status, score) ==
    /\ phase = "ready"
    /\ best' = track_best(best, cfg, status, base_register(status, score))
    /\ ret_score' = base_register(status, score)
    /\ suggested' = remove_suggested(suggested, cfg)
    /\ pending' = SelectSeq(pending, LAMBDA c : c # cfg)
    /\ last' = Result("register", "none", NoConfig, cfg \in suggested)
    /\ UNCHANGED <<phase, tunables, default_config, max_suggestions,
                   start_with_defaults, iter, opt_target, os>>

\* GridSearchOptimizer.register
register(cfg, status, score) ==
    /\ phase = "ready"
    /\ best' = track_best(best, cfg, status, base_register(status, score))
    /\ ret_score' = base_register(status, score)
    /\ suggested' = remove_suggested(suggested, cfg)
    /\ last' = Result("register", "none", NoConfig, cfg \in suggested)
    /\ UNCHANGED <<phase, tunables, default_config, max_suggestions,
                   start_with_defaults, iter, pending, opt_target, os>>

\* Optimizer.bulk_register of the base class: the batch is rejected when the
\* configurations and the scores differ in length
base_bulk_register(configs, nscores) ==
    Len(configs) = nscores

\* the for loop of bulk_register: register() on every configuration in turn
RECURSIVE register_all(_, _)
register_all(s, configs) ==
    IF configs = <<>> THEN s
    ELSE register_all(remove_suggested(s, Head(configs)), Tail(configs))

\* status = [Status.SUCCEEDED] * len(configs) when the statuses are omitted;
\* an optional sequence: <<>> is None, <<seq>> is the sequence seq
default_status(configs, status) ==
    IF status = <<>> THEN [i \in 1..Len(configs) |-> "SUCCEEDED"]
    ELSE status[1]

\* the loop stopping at the first configuration that is not in Suggested
RECURSIVE track_all_until_missing(_, _, _, _, _)
track_all_until_missing(b, s, configs, scores, status) ==
    IF configs = <<>> \/ scores = <<>> \/ status = <<>> \/ Head(configs) \notin s
    THEN b
    ELSE track_all_until_missing(
             track_best(b, Head(configs), Head(status),
                        base_register(Head(status), Head(scores))),
             remove_suggested(s, Head(configs)),
             Tail(configs), Tail(scores), Tail(status))

\* the for loop of bulk_register over zip(configs, scores, status): what the
\* register() calls leave as the best observation
RECURSIVE track_all(_, _, _, _, _)
track_all(b, s, configs, scores, status) ==
    IF configs = <<>> \/ scores = <<>> \/ status = <<>> THEN b
    ELSE track_all(track_best(b, Head(configs), Head(status),
                              base_register(Head(status), Head(scores))),
                   remove_suggested(s, Head(configs)),
                   Tail(configs), Tail(scores), Tail(status))

\* bulk_register() without the test of the base class's verdict
bulk_register_no_gate(configs, scores, status) ==
    /\ phase = "ready"
    /\ suggested' = register_all(suggested, configs)
    /\ best' = track_all(best, suggested, configs, scores,
                         default_status(configs, status))
    /\ last' = Result("bulk_register", "none", NoConfig,
                      base_bulk_register(configs, Len(scores)))
    /\ UNCHANGED <<phase, tunables, default_config, max_suggestions,
                   start_with_defaults, iter, pending, opt_target, ret_score, os>>

\* GridSearchOptimizer.bulk_register
bulk_register(configs, scores, status) ==
    /\ phase = "ready"
    /\ IF ~base_bulk_register(configs, Len(scores))
       THEN /\ last' = Result("bulk_register", "none", NoConfig, FALSE)
            /\ UNCHANGED <<suggested, best>>
       ELSE /\ suggested' = register_all(suggested, configs)
            /\ best' = track_all(best, suggested, configs, scores,
                                 default_status(configs, status))
            /\ last' = Result("bulk_register", "none", NoConfig, TRUE)
    /\ UNCHANGED <<phase, tunables, default_config, max_suggestions,
                   start_with_defaults, iter, pending, opt_target, ret_score, os>>

\* the test of the budget alone
not_converged_value_budget_only ==
    iter <= max_suggestions

\* the test of Pending alone
not_converged_value_pending_only ==
    pending # <<>>

\* GridSearchOptimizer.not_converged: the value it returns
not_converged_value ==
    IF iter > max_suggestions THEN FALSE
    ELSE pending # <<>>

\* a call of not_converged()
not_converged ==
    /\ phase = "ready"
    /\ last' = Result("not_converged", "none", NoConfig, not_converged_value)
    /\ UNCHANGED <<phase, tunables, default_config, max_suggestions,
                   start_with_defaults, iter, pending, suggested>>
    /\ UNCHANGED <<trackVars, os>>

\* the grid of the optimizer's tunable space
Grid == _get_grid(tunables)

\* the configurations a caller registers: the first and the last grid point
\* and one that is not a grid point (the default is one of the three)
Registrable ==
    Defaults(tunables)

\* the batches a caller replays: sequences of the first grid point and the
\* default, with as many scores as configurations or, for the short ones,
\* one score too many
Batches ==
    LET pool == {default_config} \cup (IF Grid = <<>> THEN {} ELSE {Grid[1]})
    IN UNION {[1..n -> pool] : n \in 0..MaxBatch}

BulkInputs ==
    {<<configs, Len(configs)>> : configs \in Batches}
        \cup {<<configs, Len(configs) + 1>> :
                 configs \in {c \in Batches : Len(c) <= 1}}

Next ==
    \/ Construct
    \/ suggest
    \/ \E cfg \in Registrable : register(cfg, "FAILED", NoScore)
    \/ \E input \in BulkInputs :
          bulk_register(input[1], [i \in 1..input[2] |-> NoScore],
                        <<[i \in 1..Len(input[1]) |-> "FAILED"]>>)
    \/ not_converged

Spec == Init /\ [][Next]_vars

\* ---- a driver that asks not_converged() before every suggest() ----
\* the default configuration is one of the grid points
InitDriver ==
    /\ Init
    /\ _get_grid(tunables) # <<>> => default_config \in Range(_get_grid(tunables))

NextDriver ==
    \/ Construct
    \/ (not_converged_value /\ suggest)
    \/ \E cfg \in Registrable : register(cfg, "FAILED", NoScore)
    \/ \E input \in BulkInputs :
          bulk_register(input[1], [i \in 1..input[2] |-> NoScore],
                        <<[i \in 1..Len(input[1]) |-> "FAILED"]>>)
    \/ not_converged

SpecDriver == InitDriver /\ [][NextDriver]_vars

\* ---- the trials' outcomes: one tunable space, every outcome ----
InitBest ==
    /\ phase = "new"
    /\ tunables \in {t \in TunableSpaces : Len(t) = 1 /\ t[1] = MaxCard}
    /\ default_config = [i \in 1..Len(tunables) |-> 0]
    /\ max_suggestions = MaxBudget
    /\ start_with_defaults = FALSE
    /\ iter = base_iter
    /\ pending = <<>>
    /\ suggested = {}
    /\ last = Result("none", "none", NoConfig, FALSE)
    /\ opt_target \in {"min", "max"}
    /\ best = NoBest
    /\ ret_score = NoScore
    /\ os = NoEnv

\* the entries of a replayed batch: a configuration and its trial's outcome;
\* the first grid point with 42 or failed, a configuration that was never
\* suggested with 7 or 42
BatchEntries ==
    IF Grid = <<>> THEN {}
    ELSE {<<Grid[1], <<"SUCCEEDED", <<42>>>>>>,
          <<Grid[1], <<"FAILED", NoScore>>>>,
          <<default_config, <<"SUCCEEDED", <<7>>>>>>,
          <<default_config, <<"SUCCEEDED", <<42>>>>>>}

EntrySeqs ==
    UNION {[1..n -> BatchEntries] : n \in 0..MaxBatch}

Configs(entries) == [i \in 1..Len(entries) |-> entries[i][1]]

Statuses(entries) == [i \in 1..Len(entries) |-> entries[i][2][1]]

Scores(entries) == [i \in 1..Len(entries) |-> entries[i][2][2]]

\* the arguments of bulk_register that pass the base class's validation:
\* batches with their statuses, and batches of succeeded trials without them
ValidBulkInputs ==
    {<<Configs(e), Scores(e), <<Statuses(e)>>>> : e \in EntrySeqs}
        \cup {<<Configs(e), Scores(e), <<>>>> :
                 e \in {x \in EntrySeqs :
                           \A i \in 1..Len(x) : x[i][2][1] = "SUCCEEDED"}}

\* the arguments that fail it: one score too many or one too few
MismatchedBulkInputs ==
    {<<Configs(e), Append(Scores(e), <<7>>), <<Statuses(e)>>>> :
        e \in {<<>>} \cup {<<x>> : x \in BatchEntries}}
        \cup {<<Configs(e), Tail(Scores(e)), <<Statuses(e)>>>> :
                 e \in {<<x>> : x \in BatchEntries}}

BestBulkInputs ==
    ValidBulkInputs \cup MismatchedBulkInputs

NextBest ==
    \/ Construct
    \/ suggest
    \/ \E cfg \in Registrable, outcome \in TrialOutcomes :
          register(cfg, outcome[1], outcome[2])
    \/ \E input \in BestBulkInputs : bulk_register(input[1], input[2], input[3])

SpecBest == InitBest /\ [][NextBest]_vars

\* ---- the OSEnv of os_env.py ----
\* the status vocabulary of the host service
StatusValues == {"PENDING", "SUCCEEDED", "FAILED", "READY"}

\* Status.is_pending
is_pending(status) ==
    status = "PENDING"

\* the readiness test of setup() with READY left out
is_ready_status_succeeded_only(status) ==
    status = "SUCCEEDED"

\* status in {Status.SUCCEEDED, Status.READY}
is_ready_status(status) ==
    status \in {"SUCCEEDED", "READY"}

\* OSEnv.setup: base_ok is what Environment.setup returns, start_status what
\* vm_start reports, wait_status what wait_vm_operation reports if it is called
setup(base_ok, start_status, wait_status) ==
    /\ os.vm_start < MaxCalls
    /\ IF ~base_ok
       THEN os' = [os EXCEPT !.op = "setup", !.ret = FALSE, !.base_ok = FALSE,
                             !.started = "none", !.final = "none"]
       ELSE LET status == IF is_pending(start_status) THEN wait_status
                          ELSE start_status
            IN os' = [op |-> "setup",
                      is_ready |-> is_ready_status(status),
                      ret |-> is_ready_status(status),
                      base_ok |-> TRUE,
                      started |-> start_status,
                      final |-> status,
                      vm_start |-> os.vm_start + 1,
                      wait |-> IF is_pending(start_status) THEN os.wait + 1
                               ELSE os.wait,
                      vm_stop |-> os.vm_stop]
    /\ UNCHANGED <<phase, tunables, default_config, max_suggestions,
                   start_with_defaults, iter, pending, suggested, last, trackVars>>

\* Environment.teardown of the base class: the environment is no longer ready
base_teardown(env) ==
    [env EXCEPT !.is_ready = FALSE]

\* OSEnv.teardown: stop_status is what vm_stop reports; the final status is
\* only logged
teardown(stop_status) ==
    /\ os.vm_stop < MaxCalls
    /\ os' = base_teardown(
                 [os EXCEPT !.op = "teardown",
                            !.vm_stop = os.vm_stop + 1,
                            !.wait = IF is_pending(stop_status) THEN os.wait + 1
                                     ELSE os.wait])
    /\ UNCHANGED <<phase, tunables, default_config, max_suggestions,
                   start_with_defaults, iter, pending, suggested, last, trackVars>>

InitOS ==
    /\ phase = "new"
    /\ tunables = <<1>>
    /\ default_config = <<1>>
    /\ max_suggestions = 0
    /\ start_with_defaults = FALSE
    /\ iter = base_iter
    /\ pending = <<>>
    /\ suggested = {}
    /\ last = Result("none", "none", NoConfig, FALSE)
    /\ opt_target = "min"
    /\ best = NoBest
    /\ ret_score = NoScore
    /\ os = NoEnv

NextOS ==
    \/ \E base_ok \in BOOLEAN, start_status \in StatusValues, wait_status \in StatusValues :
          setup(base_ok, start_status, wait_status)
    \/ \E stop_status \in StatusValues : teardown(stop_status)

SpecOS == InitOS /\ [][NextOS]_vars

\* ---- the claims ----
\* C1: in every reachable state no configuration is both in Pending and in
\* Suggested
C1_PendingSuggestedDisjoint ==
    phase = "ready" => Range(pending) \cap suggested = {}

\* C2: a suggest() that returns a configuration never returns one that was in
\* Suggested when it was called
C2_NeverReoffered ==
    [][(suggest /\ last'.raised = "none") => last'.cfg \notin suggested]_vars

\* C3 as stated: not_converged() returns false if and only if the iteration
\* counter exceeds max_suggestions
C3_FalseIffOverBudget ==
    last.op = "not_converged" => (~last.flag <=> iter > max_suggestions)

\* C3 as amended: not_converged() returns false if and only if the iteration
\* counter exceeds max_suggestions or Pending is empty
C3_FalseIffOverBudgetOrEmpty ==
    last.op = "not_converged" =>
        (~last.flag <=> (iter > max_suggestions \/ pending = <<>>))

C3_Witness ==
    /\ last.op = "not_converged"
    /\ ~last.flag
    /\ iter <= max_suggestions
    /\ pending = <<>>

\* C4 as stated: while the iteration counter has not exceeded max_suggestions
\* the caller never sees an empty Pending
C4_NeverEmptyWithinBudget ==
    (phase = "ready" /\ iter <= max_suggestions) => pending # <<>>

\* C4 as amended: within the budget Pending is non-empty whenever
\* not_converged() returns true, and is seen empty only once suggest() has been
\* called at least grid-size times (the last entry of a pass is taken and the
\* next suggest() has not yet regenerated the grid)
C4_EmptyOnlyAfterFullPass ==
    (phase = "ready" /\ iter <= max_suggestions) =>
        /\ not_converged_value => pending # <<>>
        /\ pending = <<>> => (iter >= Len(Grid) /\ ~not_converged_value)

C4_Witness ==
    /\ phase = "ready"
    /\ last.op = "suggest"
    /\ last.raised = "none"
    /\ iter < max_suggestions
    /\ pending = <<>>

\* C5: with start_with_defaults true the first suggest() returns the default
\* configuration, which is then absent from Pending and present in Suggested,
\* the other Pending entries keeping their order
C5_DefaultsFirst ==
    [][(suggest /\ start_with_defaults) =>
          /\ last'.raised = "none"
          /\ last'.cfg = default_config
          /\ default_config \notin Range(pending')
          /\ default_config \in suggested'
          /\ pending' = SelectSeq(pending, LAMBDA c : c # default_config)]_vars

\* C6: register(cfg) never raises, leaves cfg absent from Suggested, leaves
\* Pending, the iteration counter and the other Suggested entries unchanged,
\* and registering cfg again would change nothing
C6_RegisterResolves ==
    [][\A cfg \in Registrable :
          register(cfg, "FAILED", NoScore) =>
              /\ last'.raised = "none"
              /\ cfg \notin suggested'
              /\ suggested' \cup {cfg} = suggested \cup {cfg}
              /\ pending' = pending
              /\ iter' = iter
              /\ remove_suggested(suggested', cfg) = suggested']_vars

C6_Witness ==
    /\ last.op = "register"
    /\ ~last.flag
    /\ suggested # {}
    /\ pending # <<>>

\* C7 as stated: with max_suggestions larger than the grid size, a suggest()
\* called with every pending configuration consumed regenerates the grid and
\* returns its head
C7_RestartWhenBudgetAboveGrid ==
    [][(suggest /\ pending = <<>> /\ max_suggestions > Len(Grid)) =>
          /\ last'.raised = "none"
          /\ last'.cfg = Head(Grid)
          /\ pending' = Tail(Grid)]_vars

\* C7 as amended: a suggest() called with every pending configuration consumed
\* and fewer than max_suggestions calls made so far regenerates Pending as the
\* full grid in construction order, returns its head and leaves grid-size
\* minus one entries
C7_RestartWhenWithinBudget ==
    [][(suggest /\ pending = <<>> /\ iter < max_suggestions) =>
          /\ last'.raised = "none"
          /\ last'.cfg = Head(Grid)
          /\ pending' = Tail(Grid)
          /\ Len(pending') = Prod(tunables) - 1]_vars

C7_Witness ==
    /\ last.op = "suggest"
    /\ last.raised = "none"
    /\ iter > Len(Grid)
    /\ iter <= max_suggestions
    /\ Len(Grid) > 1
    /\ pending = Tail(Grid)

\* C8: a suggest() called with Pending empty whose incremented counter exceeds
\* max_suggestions raises, returns nothing and leaves Pending and Suggested
\* as they were
C8_ExhaustionRaises ==
    [][(suggest /\ pending = <<>> /\ iter + 1 > max_suggestions) =>
          /\ last'.raised = "ValueError"
          /\ last'.cfg = NoConfig
          /\ pending' = pending
          /\ suggested' = suggested]_vars

C8_Witness ==
    /\ last.op = "suggest"
    /\ last.raised = "ValueError"
    /\ iter > max_suggestions
    /\ pending = <<>>

\* C9: right after a successful construction Pending holds exactly the
\* product of the cardinalities distinct configurations, the whole cross
\* product, and Suggested is empty
C9_FullGridAfterConstruction ==
    (last.op = "__init__" /\ last.raised = "none") =>
        /\ Len(pending) = Prod(tunables)
        /\ Cardinality(Range(pending)) = Prod(tunables)
        /\ Len(pending) >= 1
        /\ Range(pending) =
              {c \in AllConfigs(tunables) : \A i \in 1..Len(c) : c[i] >= 1}
        /\ suggested = {}

C9_Witness ==
    /\ last.op = "__init__"
    /\ phase = "ready"
    /\ Len(tunables) = 2
    /\ Len(pending) = 4

\* C10: over a tunable space with an unbounded tunable the construction
\* raises and no Pending or Suggested state is ever created
C10_UnboundedRejected ==
    (\E i \in 1..Len(tunables) : tunables[i] = Unbounded) =>
        /\ phase \in {"new", "failed"}
        /\ pending = <<>>
        /\ suggested = {}
        /\ phase = "failed" => (last.op = "__init__" /\ last.raised = "ValueError")

C10_Witness ==
    /\ phase = "failed"
    /\ \E i \in 1..Len(tunables) : tunables[i] # Unbounded

\* C11: a bulk_register() whose batch fails the base class's validation
\* returns false and leaves Suggested, Pending, the iteration counter and the
\* best observation as they were
C11_RejectedBatchChangesNothing ==
    [][\A input \in MismatchedBulkInputs :
          bulk_register(input[1], input[2], input[3]) =>
              /\ last'.op = "bulk_register"
              /\ ~last'.flag
              /\ suggested' = suggested
              /\ pending' = pending
              /\ iter' = iter
              /\ best' = best]_vars

C11_Witness ==
    /\ last.op = "bulk_register"
    /\ ~last.flag
    /\ Grid # <<>>
    /\ Grid[1] \in suggested
    /\ best # NoBest

\* C12: for a "max" target register() with score s returns -s, and the best
\* observation is the largest score registered so far, un-negated, with the
\* configuration it was registered with; a failed trial changes neither
C12_MaxTargetBest ==
    [][opt_target = "max" =>
          /\ \A cfg \in Registrable, v \in ScoreValues :
                register(cfg, "SUCCEEDED", <<v>>) =>
                    LET old == get_best_observation
                        improves == old.score = NoScore \/ v > old.score[1]
                    IN /\ ret_score' = <<0 - v>>
                       /\ get_best_observation'.score =
                             (IF improves THEN <<v>> ELSE old.score)
                       /\ get_best_observation'.config =
                             (IF improves THEN cfg ELSE old.config)
          /\ \A cfg \in Registrable :
                register(cfg, "FAILED", NoScore) =>
                    (ret_score' = NoScore /\ best' = best)]_vars

C12_Witness ==
    /\ opt_target = "max"
    /\ last.op = "register"
    /\ ret_score = <<0 - 7>>
    /\ get_best_observation.score = <<42>>
    /\ get_best_observation.config = Grid[1]

\* C17: the statuses of a batch, SUCCEEDED everywhere when they are omitted
BatchSucceeded(input, i) ==
    input[3] = <<>> \/ input[3][1][i] = "SUCCEEDED"

\* C17: the best observation that registering the triples of a batch one by
\* one in batch order leaves: the incumbent unless a succeeded triple is
\* strictly better, and then the first of the best triples
BestAfterBatch(b, input) ==
    LET scored == {i \in 1..Len(input[1]) :
                      BatchSucceeded(input, i) /\ input[2][i] # NoScore}
        signed(i) == Sign * input[2][i][1]
    IN IF scored = {} THEN b
       ELSE LET m == CHOOSE i \in scored :
                        \A j \in scored :
                            signed(i) < signed(j) \/ (signed(i) = signed(j) /\ i <= j)
            IN IF b.score # NoScore /\ b.score[1] <= signed(m) THEN b
               ELSE [score |-> <<signed(m)>>, config |-> input[1][m]]

C20_RegisterFramesPending ==
    [][/\ last'.op \in {"register", "bulk_register"} =>
              (pending' = pending /\ iter' = iter)
       /\ \A cfg \in Registrable, outcome \in TrialOutcomes :
              (register(cfg, outcome[1], outcome[2]) /\ cfg \in Range(pending)) =>
                  cfg \in Range(pending')
       /\ (suggest /\ ~start_with_defaults /\ pending # <<>>) =>
              (last'.raised = "none" /\ last'.cfg = Head(pending))]_vars

C20_Witness ==
    /\ last.op = "suggest"
    /\ last.raised = "none"
    /\ iter = 1
    /\ best.score # NoScore
    /\ last.cfg = best.config

\* s is what remains of q after taking entries from its head
IsSuffix(s, q) ==
    /\ Len(s) <= Len(q)
    /\ s = SubSeq(q, Len(q) - Len(s) + 1, Len(q))

\* C13: but for the defaults-first call suggest() returns the head of Pending
\* (of the regenerated grid after a restart) and removes it, so that Pending
\* is always what is left of the grid in generation order, the default
\* skipped once it was extracted, however the registrations interleave
C13_GenerationOrder ==
    [][/\ (~start_with_defaults /\ last'.raised = "none" /\ suggest) =>
              LET p == IF pending = <<>> THEN Grid ELSE pending
              IN last'.cfg = Head(p) /\ pending' = Tail(p)
       /\ (phase' = "ready" /\ pending' # pending) =>
              LET g == Grid
              IN \/ IsSuffix(pending', g)
                 \/ IsSuffix(pending', SelectSeq(g, LAMBDA c : c # default_config))]_vars

C13_Witness ==
    /\ last.op = "suggest"
    /\ iter = 2
    /\ Len(Grid) > 2
    /\ default_config = Grid[Len(Grid)]
    /\ default_config \in suggested
    /\ last.cfg = Grid[1]
    /\ pending = SubSeq(Grid, 2, Len(Grid) - 1)

\* C14: a first suggest() with start_with_defaults whose default is not in
\* Pending returns the default, adds it to Suggested and leaves Pending alone
C14_OffGridDefaultAccepted ==
    [][(suggest /\ start_with_defaults /\ default_config \notin Range(pending)) =>
          /\ last'.raised = "none"
          /\ last'.cfg = default_config
          /\ default_config \in suggested'
          /\ pending' = pending]_vars

\* C15: the first suggest() consumes start_with_defaults for good, and every
\* later suggest(), the first after a restart included, takes the head of
\* Pending
C15_DefaultsFirstOnce ==
    [][/\ suggest => ~start_with_defaults'
       /\ ~start_with_defaults => ~start_with_defaults'
       /\ (suggest /\ iter >= 1) =>
              /\ ~start_with_defaults
              /\ last'.raised = "none" =>
                    last'.cfg = Head(IF pending = <<>> THEN Grid ELSE pending)]_vars

C15_Witness ==
    /\ last.op = "suggest"
    /\ iter = 3
    /\ Len(Grid) > 3
    /\ default_config = Grid[Len(Grid)]
    /\ default_config \in suggested
    /\ last.cfg = Grid[2]
    /\ ~start_with_defaults

\* C16: once the iteration counter has exceeded max_suggestions it stays so,
\* not_converged() returns false, and Pending only loses entries
C16_NoRestartOverBudget ==
    [][iter > max_suggestions =>
          /\ iter' > max_suggestions
          /\ ~not_converged_value'
          /\ IsSuffix(pending', pending)]_vars

C16_Witness ==
    /\ last.op = "suggest"
    /\ last.raised = "none"
    /\ iter > max_suggestions + 1
    /\ pending # <<>>

\* the smaller of two numbers
Min(a, b) ==
    IF a <= b THEN a ELSE b

\* C19: a driver that calls suggest() only while not_converged() is true, the
\* default being a grid point, never sees suggest() raise, and not_converged()
\* is false after min(grid size, max_suggestions + 1) calls, which is as many
\* as the driver ever makes
C19_DriverTerminates ==
    phase = "ready" =>
        /\ last.op = "suggest" => last.raised = "none"
        /\ iter <= Min(Len(Grid), max_suggestions + 1)
        /\ iter = Min(Len(Grid), max_suggestions + 1) => ~not_converged_value

C19_Witness ==
    /\ phase = "ready"
    /\ last.op = "not_converged"
    /\ ~last.flag
    /\ Len(Grid) > 1
    /\ iter = Len(Grid)
    /\ iter <= max_suggestions

\* C18: setup() returns true and marks the environment ready exactly when
\* the base setup succeeded and the final status of the start is SUCCEEDED or
\* READY, the final status being what wait_vm_operation reports when vm_start
\* reported PENDING and what vm_start reported otherwise; a failed base setup
\* returns false without any vm_start or wait
C18_SetupReadyIffStarted ==
    [][\A base_ok \in BOOLEAN, start_status \in StatusValues, wait_status \in StatusValues :
          setup(base_ok, start_status, wait_status) =>
              LET final == IF start_status = "PENDING" THEN wait_status
                           ELSE start_status
              IN /\ (os'.ret /\ os'.is_ready) <=>
                        (base_ok /\ final \in {"SUCCEEDED", "READY"})
                 /\ os'.ret <=> (base_ok /\ final \in {"SUCCEEDED", "READY"})
                 /\ base_ok =>
                        /\ os'.is_ready = os'.ret
                        /\ os'.vm_start = os.vm_start + 1
                        /\ os'.wait = os.wait +
                              (IF start_status = "PENDING" THEN 1 ELSE 0)
                 /\ ~base_ok =>
                        /\ ~os'.ret
                        /\ os'.vm_start = os.vm_start
                        /\ os'.wait = os.wait]_vars

C18_Witness ==
    /\ os.op = "setup"
    /\ os.ret
    /\ os.is_ready
    /\ os.started = "PENDING"
    /\ os.final = "READY"
    /\ os.wait >= 1
====
